---- MODULE Spec2Model ----
(***************************************************************************)
(* Model of the raikou-factory orchestrator (src/app): the HTTP endpoints  *)
(* of app.py, docker_compose_run and the other coroutines of               *)
(* docker_orchestrator.py, and copy_files of sftp.py.                      *)
(*                                                                         *)
(* The service runs on one asyncio event loop: the code between two await  *)
(* points of a coroutine runs without interruption.  Every action below is *)
(* one such stretch of one request handler: it starts where an awaited     *)
(* operation (a subprocess, an SSH connect, an sftp put, a sleep) returns  *)
(* and runs up to the next await or to the end of the handler.  The        *)
(* outcome of the awaited operation is the action's input.                 *)
(***************************************************************************)
EXTENDS Integers, Sequences, FiniteSets, TLC

\* ------------------------------------------------------------- bounds
\* Request handlers that may be in flight at once.
NumCalls == 2
\* Largest number of services a compose document declares / the engine runs.
MaxServices == 2
\* Largest number of mount files of one request.
MaxFiles == 1
\* Largest number of containers listed by one inspect call.
MaxContainers == 2
\* Largest length of a compose text, in characters.
MaxText == 3
\* Largest length of a mount token and of a source path, in characters.
MaxWord == 2

\* --------------------------------------------------- program constants
\* sftp.py: _ATTEMPTS_LIMIT
AttemptsLimit == 3

Calls == 1..NumCalls

\* Context names a client may send.  "x" is never configured on the host.
Names == {"a", "b", "x"}

\* What `docker context ls` prints when it succeeds: name |-> endpoint.
ConfiguredContexts == [a |-> "ssh://user@hostA", b |-> "ssh://user@hostB"]

EmptyDict == [n \in {} |-> ""]

\* docker_context_ls: the dictionary stays empty unless the command exits 0.
docker_context_ls(returncode) ==
    IF returncode = 0 THEN ConfiguredContexts ELSE EmptyDict

\* The compose documents a client may send, by what yaml.safe_load and
\* compose_config.get("services", {}) make of them:
\*   "malformed"   safe_load raises yaml.YAMLError
\*   "nonmapping"  safe_load returns None, a scalar or a list (no .get)
\*   "nokey"       a mapping without the key "services"
\*   "null"        a mapping whose "services" is null (no len())
\*   "services"    a mapping whose "services" holds n entries
Yaml(kind, n) == [kind |-> kind, n |-> n]
NoYaml == Yaml("none", 0)
YamlDocs ==
    {Yaml(k, 0) : k \in {"malformed", "nonmapping", "nokey", "null"}}
        \cup {Yaml("services", n) : n \in 0..MaxServices}

\* len(services_requested): get("services", {}) is {} without the key.
DeclaredCount(y) == IF y.kind = "nokey" THEN 0 ELSE y.n

Ops == {"run", "run_mounts", "inspect", "update_file", "update_json_file"}

Request_(op, ctx, y, m) == [op |-> op, context |-> ctx, yaml |-> y, nmounts |-> m]

NoRequest == Request_("none", "none", NoYaml, 0)

\* The requests of the endpoints of app.py.
RunRequests == {Request_("run", ctx, y, 0) : ctx \in Names, y \in YamlDocs}
MountRequests ==
    {Request_("run_mounts", ctx, y, m) : ctx \in Names, y \in YamlDocs, m \in 0..MaxFiles}
InspectRequests == {Request_("inspect", ctx, NoYaml, 0) : ctx \in Names}
UpdateFileRequests == {Request_("update_file", ctx, NoYaml, 0) : ctx \in Names}
UpdateJsonRequests == {Request_("update_json_file", ctx, NoYaml, 0) : ctx \in Names}

\* Calls of update_file_on_remote_container itself, with the context as its
\* fourth argument.  The function looks nothing up in the registry.
UpdateFileCalls ==
    {Request_("update_file_on_remote_container", ctx, NoYaml, 0) : ctx \in {"a", "x"}}

\* ------------------------------------------------------------ responses
Response(status, detail) == [status |-> status, detail |-> detail]
NoResult == Response(0, "")
InvalidContext == Response(400, "Invalid Docker context.")
ContextBusy == Response(409, "Context is already being used.")
InvalidYaml == Response(400, "Invalid YAML syntax.")
CopyFailed == Response(504, "Failed to copy SSH file to URL")
PruneFailed == Response(500, "Failed to execute docker network prune command.")
UpFailed == Response(500, "Failed to execute docker-compose command.")
CheckFailed == Response(500, "Failed to check container status.")
CountMismatch == Response(500, "Invalid container creation count.")
\* An exception that is no HTTPException leaves the handler: the framework
\* answers 500.
Unhandled(exc) == Response(500, exc)
RunResult == Response(200, "stdout, stderr, returncode")
InspectError == Response(200, "error: failed to execute docker compose inspect!")
InspectData == Response(200, "container data")
ReadFailed == Response(500, "Failed to read JSON file")
CpFailed == Response(500, "Failed to copy temporary file to container")
MvFailed == Response(500, "Failed to update JSON file inside container")
JsonUpdated == Response(200, "JSON file updated successfully")
FileMvFailed == Response(500, "Failed to update file inside container")
FileUpdated == Response(200, "File updated successfully")

VARIABLES
    contexts,   \* _DOCKER_CONTEXTS, the cached result of docker_context_ls()
    locks,      \* _CONTEXT_LOCKS
    pc,         \* per handler: the await it is suspended at, "idle" or "done"
    req,        \* per handler: the request it serves
    res,        \* per handler: the response of its finished request
    eff,        \* per handler: what its current request has done so far
    files,      \* per handler: the _copy_file tasks of its copy_files call
    observed,   \* per handler: number of names `compose ps` printed, or -1
    marks,      \* per handler: container_data of its inspect call, in order
    staged,     \* the contexts whose /tmp/docker-compose_{context}.json exists
    call,       \* the function application that is followed on its own
    tmpfiles,   \* the mount files in /tmp: file name |-> content
    environ,    \* src/factory: os.environ.get("DOCKER_HOST"), or "unset"
    host        \* src/factory, per handler: original_docker_host and the
                \* DOCKER_HOST its last command was started with

vars == <<contexts, locks, pc, req, res, eff, files, observed, marks, staged,
          call, tmpfiles, environ, host>>

\* What the handlers of src/app leave alone: they pass the context to every
\* command (DOCKER_CONTEXT=...), and the content of their mount files is
\* followed in the specification of copy_mount_files.
apart == <<call, tmpfiles, environ, host>>

\* ------------------------------------------------------- the lock table
EmptyLocks == [n \in {} |-> TRUE]

\* Mutant of LockHeld: one lock for the whole table, whatever the context.
LockHeldAny(l, ctx) == \E n \in DOMAIN l : l[n]

\* docker_compose_run: `if _CONTEXT_LOCKS.get(context):`
LockHeld(l, ctx) == ctx \in DOMAIN l /\ l[ctx]

\* Mutant of Acquire: the entry is never stored.
AcquireForgets(l, ctx) == l

\* docker_compose_run: `_CONTEXT_LOCKS[context] = True`
Acquire(l, ctx) == [n \in DOMAIN l \cup {ctx} |-> IF n = ctx THEN TRUE ELSE l[n]]

\* Mutant of Release: the entry is set to False instead of being deleted.
ReleaseToFalse(l, ctx) == [n \in DOMAIN l |-> IF n = ctx THEN FALSE ELSE l[n]]

\* docker_compose_run: `del _CONTEXT_LOCKS[context]`, which raises KeyError
\* when the key is missing.
Release(l, ctx) == [n \in DOMAIN l \ {ctx} |-> l[n]]
ReleaseRaises(l, ctx) == ctx \notin DOMAIN l

\* ------------------------------------------------- leaving a handler
\* The handler suspends at the await `at`.
Suspend(c, at, l, E) ==
    /\ pc' = [pc EXCEPT ![c] = at]
    /\ locks' = l
    /\ eff' = [eff EXCEPT ![c] = E]
    /\ res' = [res EXCEPT ![c] = NoResult]
    /\ UNCHANGED staged

\* The handler returns r, or raises it, outside the try block of
\* docker_compose_run.
Return(c, r, E) ==
    /\ pc' = [pc EXCEPT ![c] = "done"]
    /\ res' = [res EXCEPT ![c] = r]
    /\ eff' = [eff EXCEPT ![c] = E]
    /\ UNCHANGED <<locks, staged>>

\* Mutant of RunExit: no finally block, the lock is released on the success
\* path only.
RunExitNoFinally(c, ctx, l, r, E) ==
    /\ pc' = [pc EXCEPT ![c] = "done"]
    /\ locks' = IF r.status = 200 THEN Release(l, ctx) ELSE l
    /\ res' = [res EXCEPT ![c] = r]
    /\ eff' = [eff EXCEPT ![c] = IF r.status = 200 THEN E \cup {"release"} ELSE E]
    /\ UNCHANGED staged

\* Mutant of RunExit: the finally block also removes the staged compose file.
RunExitDiscards(c, ctx, l, r, E) ==
    /\ pc' = [pc EXCEPT ![c] = "done"]
    /\ locks' = Release(l, ctx)
    /\ res' = [res EXCEPT ![c] = IF ReleaseRaises(l, ctx) THEN Unhandled("KeyError") ELSE r]
    /\ eff' = [eff EXCEPT ![c] = E \cup {"release"}]
    /\ staged' = staged \ {ctx}

\* docker_compose_run returns r, or raises it, inside its try block: the
\* finally block deletes the lock entry first.
RunExit(c, ctx, l, r, E) ==
    /\ pc' = [pc EXCEPT ![c] = "done"]
    /\ locks' = Release(l, ctx)
    /\ res' = [res EXCEPT ![c] = IF ReleaseRaises(l, ctx) THEN Unhandled("KeyError") ELSE r]
    /\ eff' = [eff EXCEPT ![c] = E \cup {"release"}]
    /\ UNCHANGED staged

\* docker_compose_run: `Path(file_path).write_text(compose_content, ...)`
\* creates or overwrites the staged compose file of the context, and the
\* network prune command is started.
PersistAndPrune(c, ctx, l, E) ==
    /\ pc' = [pc EXCEPT ![c] = "prune"]
    /\ locks' = l
    /\ eff' = [eff EXCEPT ![c] = E \cup {"staged", "prune"}]
    /\ res' = [res EXCEPT ![c] = NoResult]
    /\ staged' = staged \cup {ctx}

\* ------------------------------------------------------- endpoints
\* The name an endpoint looks up in _DOCKER_CONTEXTS.  UpdateFileRequest
\* declares `context` as a ClassVar, so request_data.context is the class
\* attribute (the Field(...) object), whatever the client sent.
EndpointContext(r) == IF r.op = "update_file" THEN "FieldInfo" ELSE r.context

\* Mutant of ContextKnown: no endpoint checks the name.
ContextAlwaysKnown(r) == TRUE

\* Mutant of ContextKnown: only the two run endpoints check the name.
ContextKnownRunOnly(r) ==
    r.op \notin {"run", "run_mounts"} \/ EndpointContext(r) \in DOMAIN contexts

\* Mutant of ContextKnown: an empty registry restricts nothing (fail-open).
ContextKnownFailOpen(r) ==
    DOMAIN contexts = {} \/ EndpointContext(r) \in DOMAIN contexts

\* app.py: `if content.context not in _DOCKER_CONTEXTS:`
ContextKnown(r) == EndpointContext(r) \in DOMAIN contexts

\* Mutant of YAMLError: the document is never validated.
YAMLErrorNever(y) == FALSE

\* docker_compose_run: yaml.safe_load raises yaml.YAMLError.
YAMLError(y) == y.kind = "malformed"

\* Mutant of RejectBusy: the check sits inside the try block, so the finally
\* block deletes the entry of the run that holds the lock.
RejectBusyInsideTry(c, r) == RunExit(c, r.context, locks, ContextBusy, {})

\* docker_compose_run: `raise HTTPException(status_code=409, ...)`, which is
\* raised before the try block is entered.
RejectBusy(c, r) == Return(c, ContextBusy, {})

\* Mutant of docker_compose_run: the staged compose file is written before
\* the document is validated.
DockerComposeRunPersistsFirst(c, r) ==
    LET ctx == r.context
        held == Acquire(locks, ctx)
    IN  IF LockHeld(locks, ctx)
        THEN RejectBusy(c, r)
        ELSE IF YAMLError(r.yaml) \/ r.yaml.kind = "nonmapping"
                    \/ ctx \notin DOMAIN contexts
        THEN /\ pc' = [pc EXCEPT ![c] = "done"]
             /\ locks' = Release(held, ctx)
             /\ res' = [res EXCEPT ![c] = InvalidYaml]
             /\ eff' = [eff EXCEPT ![c] = {"acquire", "staged", "release"}]
             /\ staged' = staged \cup {ctx}
        ELSE IF r.nmounts > 0
        THEN Suspend(c, "connect", held, {"acquire", "scratch", "connect"})
        ELSE PersistAndPrune(c, ctx, held, {"acquire"})

\* docker_compose_run up to its first await.
docker_compose_run(c, r) ==
    LET ctx == r.context
        held == Acquire(locks, ctx)
    IN  IF LockHeld(locks, ctx)
        THEN RejectBusy(c, r)
        ELSE IF YAMLError(r.yaml)
        THEN RunExit(c, ctx, held, InvalidYaml, {"acquire"})
        ELSE IF r.yaml.kind = "nonmapping"
        THEN RunExit(c, ctx, held, Unhandled("AttributeError"), {"acquire"})
        ELSE IF ctx \notin DOMAIN contexts
        THEN RunExit(c, ctx, held, Unhandled("KeyError"), {"acquire"})
        ELSE IF r.nmounts > 0
        THEN Suspend(c, "connect", held, {"acquire", "scratch", "connect"})
        ELSE PersistAndPrune(c, ctx, held, {"acquire"})

\* Mutant of docker_inspect_containers: the inspection is turned away while a
\* run holds the lock of the context.
InspectChecksLock(c, r) ==
    IF LockHeld(locks, r.context)
    THEN Return(c, ContextBusy, {})
    ELSE Suspend(c, "compose_ps", locks, {"ps"})

\* docker_inspect_containers up to its first await.
docker_inspect_containers(c, r) == Suspend(c, "compose_ps", locks, {"ps"})

\* update_json_file_on_remote_container up to its first await.
update_json_file_on_remote_container(c, r) == Suspend(c, "cat", locks, {"cat"})

\* update_file_on_remote_container up to its first await.
update_file_on_remote_container(c, r) ==
    Suspend(c, "cp_file", locks, {"tmpfile", "cp"})

\* An endpoint of app.py, from the arrival of the request to the first await.
Endpoint(c, r) ==
    IF ~ContextKnown(r)
    THEN Return(c, InvalidContext, {})
    ELSE CASE r.op \in {"run", "run_mounts"} -> docker_compose_run(c, r)
           [] r.op = "inspect" -> docker_inspect_containers(c, r)
           [] r.op = "update_file" -> update_file_on_remote_container(c, r)
           [] r.op = "update_json_file" -> update_json_file_on_remote_container(c, r)

\* A request reaches its endpoint; a call of update_file_on_remote_container
\* enters the function.
Entry(c, r) ==
    IF r.op = "update_file_on_remote_container"
    THEN update_file_on_remote_container(c, r)
    ELSE Endpoint(c, r)

NoFiles == <<>>

\* A request arrives at an idle handler.
Request(c, R) ==
    /\ pc[c] \in {"idle", "done"}
    /\ \E r \in R :
        /\ req' = [req EXCEPT ![c] = r]
        /\ Entry(c, r)
    /\ files' = [files EXCEPT ![c] = NoFiles]
    /\ observed' = [observed EXCEPT ![c] = -1]
    /\ marks' = [marks EXCEPT ![c] = <<>>]
    /\ UNCHANGED <<contexts, apart>>

\* --------------------------------------------- copy_files (sftp.py)
FileTask(puts, phase, ok) == [puts |-> puts, phase |-> phase, ok |-> ok]

\* _copy_file: `if attempt < _ATTEMPTS_LIMIT:` in the except clause, where
\* attempt is the loop variable of range(_ATTEMPTS_LIMIT).
RetryAgain(attempt) == attempt < AttemptsLimit

\* Mutant of LoopContinues: the loop retries without a limit.
LoopForever(attempt) == TRUE

\* _copy_file: `for attempt in range(_ATTEMPTS_LIMIT)` has a next iteration.
LoopContinues(attempt) == attempt + 1 < AttemptsLimit

\* copy_mount_files: asyncssh.connect and start_sftp_client return or raise.
\* An asyncssh.Error becomes the 504 of copy_mount_files; any other
\* exception (an OSError of the socket) is not caught.  Once connected, the
\* task group starts one _copy_file task per file, each at its first put.
SshConnected(c) ==
    /\ pc[c] = "connect"
    /\ \E outcome \in {"ok", "asyncssh.Error", "OSError"} :
        CASE outcome = "ok" ->
                /\ files' = [files EXCEPT ![c] =
                        [f \in 1..req[c].nmounts |-> FileTask(1, "put", FALSE)]]
                /\ Suspend(c, "copy", locks, eff[c] \cup {"put"})
          [] outcome = "asyncssh.Error" ->
                /\ RunExit(c, req[c].context, locks, CopyFailed, eff[c])
                /\ UNCHANGED files
          [] outcome = "OSError" ->
                /\ RunExit(c, req[c].context, locks, Unhandled("OSError"), eff[c])
                /\ UNCHANGED files
    /\ UNCHANGED <<contexts, apart, req, observed, marks>>

\* _copy_file: sftp.put returns, or raises asyncssh.Error.
PutReturns(c, f) ==
    /\ pc[c] = "copy"
    /\ f \in DOMAIN files[c]
    /\ files[c][f].phase = "put"
    /\ \E raised \in BOOLEAN :
        LET t == files[c][f]
            t2 == IF ~raised THEN FileTask(t.puts, "done", TRUE)
                  ELSE IF RetryAgain(t.puts - 1) THEN FileTask(t.puts, "sleep", FALSE)
                  ELSE FileTask(t.puts, "raised", FALSE)
        IN  files' = [files EXCEPT ![c][f] = t2]
    /\ UNCHANGED <<contexts, apart, locks, pc, req, res, eff, observed, marks, staged>>

\* Mutant of SleepReturns: the loop does not count its attempts and puts
\* again after every sleep.
SleepReturnsRestarts(c, f) ==
    /\ pc[c] = "copy"
    /\ f \in DOMAIN files[c]
    /\ files[c][f].phase = "sleep"
    /\ files' = [files EXCEPT ![c][f] = FileTask(files[c][f].puts, "put", FALSE)]
    /\ UNCHANGED <<contexts, apart, locks, pc, req, res, eff, observed, marks, staged>>

\* _copy_file: asyncio.sleep(1) returns; the loop puts again or runs out,
\* and then _copy_file returns None.
SleepReturns(c, f) ==
    /\ pc[c] = "copy"
    /\ f \in DOMAIN files[c]
    /\ files[c][f].phase = "sleep"
    /\ LET t == files[c][f]
       IN  IF LoopContinues(t.puts - 1)
           THEN /\ files' = [files EXCEPT ![c][f] = FileTask(t.puts + 1, "put", FALSE)]
                /\ eff' = [eff EXCEPT ![c] = @ \cup {"put"}]
           ELSE /\ files' = [files EXCEPT ![c][f] = FileTask(t.puts, "done", FALSE)]
                /\ UNCHANGED eff
    /\ UNCHANGED <<contexts, apart, locks, pc, req, res, observed, marks, staged>>

\* copy_files: the task group is left once every task has returned, or as
\* soon as one has raised (an ExceptionGroup, which `except asyncssh.Error`
\* of copy_mount_files does not catch).  copy_mount_files then returns and
\* docker_compose_run goes on to its next await.
CopyJoin(c) ==
    /\ pc[c] = "copy"
    /\ LET raised == \E f \in DOMAIN files[c] : files[c][f].phase = "raised"
           finished == \A f \in DOMAIN files[c] : files[c][f].phase = "done"
       IN  /\ raised \/ finished
           /\ IF raised
              THEN RunExit(c, req[c].context, locks, Unhandled("ExceptionGroup"), eff[c])
              ELSE PersistAndPrune(c, req[c].context, locks, eff[c])
    \* The tasks are gone; what remains is which files reached the host.
    /\ files' = [files EXCEPT ![c] =
            [f \in DOMAIN files[c] |-> FileTask(0, files[c][f].phase, files[c][f].ok)]]
    /\ UNCHANGED <<contexts, apart, req, observed, marks>>

\* ------------------------------------- docker_compose_run, after staging
\* Mutant of PruneExits: the exit code of the prune command is not looked at.
PruneExitsUnchecked(c) ==
    /\ pc[c] = "prune"
    /\ \E returncode \in {0, 1} :
        Suspend(c, "up", locks,
                eff[c] \cup (IF returncode = 0 THEN {"prune_ok"} ELSE {}) \cup {"up"})
    /\ UNCHANGED <<contexts, apart, req, files, observed, marks>>

\* Mutant of PruneExits: the bring-up command is started before the exit code
\* of the prune command is looked at.
PruneExitsStartsUp(c) ==
    /\ pc[c] = "prune"
    /\ \E returncode \in {0, 1} :
        IF returncode # 0
        THEN RunExit(c, req[c].context, locks, PruneFailed, eff[c] \cup {"up"})
        ELSE Suspend(c, "up", locks, eff[c] \cup {"prune_ok", "up"})
    /\ UNCHANGED <<contexts, apart, req, files, observed, marks>>

\* `docker network prune` exits.
PruneExits(c) ==
    /\ pc[c] = "prune"
    /\ \E returncode \in {0, 1} :
        IF returncode # 0
        THEN RunExit(c, req[c].context, locks, PruneFailed, eff[c])
        ELSE Suspend(c, "up", locks, eff[c] \cup {"prune_ok", "up"})
    /\ UNCHANGED <<contexts, apart, req, files, observed, marks>>

\* `docker compose up` exits.
UpExits(c) ==
    /\ pc[c] = "up"
    /\ \E returncode \in {0, 1} :
        IF returncode # 0
        THEN RunExit(c, req[c].context, locks, UpFailed, eff[c])
        ELSE Suspend(c, "ps", locks, eff[c] \cup {"up_ok", "ps"})
    /\ UNCHANGED <<contexts, apart, req, files, observed, marks>>

\* _get_compose_service_states: len(stdout.decode().strip().split("\n"))
\* when `compose ps` printed m names, one per line: "".split("\n") is [""].
NamesCount(m) == IF m = 0 THEN 1 ELSE m

\* docker_compose_run: the comparison of the two counts and the result.
Convergence(y, m) ==
    IF y.kind = "null" THEN Unhandled("TypeError")
    ELSE IF NamesCount(m) # DeclaredCount(y) THEN CountMismatch
    ELSE RunResult

\* Mutant of PsExits: a failed convergence check takes the deployment down
\* and removes the staged file before the error is raised.
PsExitsRollsBack(c) ==
    /\ pc[c] = "ps"
    /\ \E returncode \in {0, 1}, m \in 0..MaxServices :
        LET r == IF returncode # 0 THEN CheckFailed ELSE Convergence(req[c].yaml, m)
            failed == r.status # 200
        IN  /\ pc' = [pc EXCEPT ![c] = "done"]
            /\ locks' = Release(locks, req[c].context)
            /\ res' = [res EXCEPT ![c] = r]
            /\ eff' = [eff EXCEPT ![c] =
                    @ \cup {"release"} \cup (IF failed THEN {"down"} ELSE {})]
            /\ staged' = IF failed THEN staged \ {req[c].context} ELSE staged
            /\ observed' = [observed EXCEPT ![c] = IF returncode # 0 THEN -1 ELSE m]
    /\ UNCHANGED <<contexts, apart, req, files, marks>>

\* `docker compose ps` of _get_compose_service_states exits, having printed
\* the names of the m running services.
PsExits(c) ==
    /\ pc[c] = "ps"
    /\ \E returncode \in {0, 1}, m \in 0..MaxServices :
        IF returncode # 0
        THEN /\ RunExit(c, req[c].context, locks, CheckFailed, eff[c])
             /\ UNCHANGED observed
        ELSE /\ RunExit(c, req[c].context, locks, Convergence(req[c].yaml, m), eff[c])
             /\ observed' = [observed EXCEPT ![c] = m]
    /\ UNCHANGED <<contexts, apart, req, files, marks>>

\* ------------------------------------------ docker_inspect_containers
\* The exit codes of `docker compose --file=/tmp/docker-compose_{context}.json
\* ps`: the command cannot succeed without the file.
ComposePsCodes(ctx) == IF ctx \in staged THEN {0, 1} ELSE {1}

\* `docker compose ps` exits, having printed k container names.
ComposePsExits(c) ==
    /\ pc[c] = "compose_ps"
    /\ \E returncode \in ComposePsCodes(req[c].context), k \in 0..MaxContainers :
        IF returncode # 0
        THEN /\ Return(c, InspectError, eff[c])
             /\ UNCHANGED marks
        ELSE IF k = 0
        THEN /\ Return(c, InspectData, eff[c])
             /\ UNCHANGED marks
        ELSE /\ Suspend(c, "inspect", locks, eff[c] \cup {"inspect"})
             /\ marks' = [marks EXCEPT ![c] = [i \in 1..k |-> "pending"]]
    /\ UNCHANGED <<contexts, apart, req, files, observed>>

\* Mutant of InspectExits: a failed `docker inspect` ends the call.
InspectExitsAborts(c) ==
    /\ pc[c] = "inspect"
    /\ \E returncode \in {0, 1} :
        LET i == CHOOSE j \in DOMAIN marks[c] :
                    /\ marks[c][j] = "pending"
                    /\ \A h \in 1..(j - 1) : marks[c][h] # "pending"
            m2 == [marks[c] EXCEPT ![i] =
                    IF returncode = 0 THEN "data" ELSE "Failed to collect Data!!"]
        IN  /\ marks' = [marks EXCEPT ![c] = m2]
            /\ IF i < Len(m2) /\ returncode = 0
               THEN Suspend(c, "inspect", locks, eff[c])
               ELSE Return(c, InspectData, eff[c])
    /\ UNCHANGED <<contexts, apart, req, files, observed>>

\* `docker inspect` of the next listed container exits.
InspectExits(c) ==
    /\ pc[c] = "inspect"
    /\ \E returncode \in {0, 1} :
        LET i == CHOOSE j \in DOMAIN marks[c] :
                    /\ marks[c][j] = "pending"
                    /\ \A h \in 1..(j - 1) : marks[c][h] # "pending"
            m2 == [marks[c] EXCEPT ![i] =
                    IF returncode = 0 THEN "data" ELSE "Failed to collect Data!!"]
        IN  /\ marks' = [marks EXCEPT ![c] = m2]
            /\ IF i < Len(m2)
               THEN Suspend(c, "inspect", locks, eff[c])
               ELSE Return(c, InspectData, eff[c])
    /\ UNCHANGED <<contexts, apart, req, files, observed>>

\* ------------------------------- update_json_file_on_remote_container
\* Mutant of Cleanup: the temporary file is removed at the end of the try
\* block, that is on success only.
CleanupOnSuccess(E, r) == IF r.status = 200 THEN E \cup {"rmtmp"} ELSE E

\* The finally block of both update functions: `if temp_file:
\* os.remove(temp_file.name)`.
Cleanup(E, r) == IF "tmpfile" \in E THEN E \cup {"rmtmp"} ELSE E

\* An update function returns r, or raises it, through its finally block.
EditorExit(c, r) == Return(c, r, Cleanup(eff[c], r))

\* `docker exec cat` exits.  Empty output stands for {}, other output is
\* parsed by json.loads, which raises on text that is no JSON document.
CatExits(c) ==
    /\ pc[c] = "cat"
    /\ \E returncode \in {0, 1}, stdout \in {"empty", "json", "garbage"} :
        IF returncode # 0
        THEN EditorExit(c, ReadFailed)
        ELSE IF stdout = "garbage"
        THEN Return(c, Unhandled("JSONDecodeError"),
                    Cleanup(eff[c] \cup {"undecodable"}, Unhandled("JSONDecodeError")))
        ELSE Suspend(c, "cp", locks, eff[c] \cup {"tmpfile", "cp"})
    /\ UNCHANGED <<contexts, apart, req, files, observed, marks>>

\* `docker cp` exits.
CpExits(c) ==
    /\ pc[c] = "cp"
    /\ \E returncode \in {0, 1} :
        IF returncode # 0
        THEN EditorExit(c, CpFailed)
        ELSE Suspend(c, "exec", locks, eff[c] \cup {"exec"})
    /\ UNCHANGED <<contexts, apart, req, files, observed, marks>>

\* The exit code of `docker exec {container} bash -c 'cat {tmp} > {path}; rm
\* {tmp}'`: non-zero when the exec cannot start bash in the container;
\* otherwise the status of the last command of the list, the rm, whatever
\* became of the redirected cat.
MoveCode(started, cat_ok, rm_ok) == IF started /\ rm_ok THEN 0 ELSE 1

\* What the move command did inside the container.
MoveEffects(started, cat_ok, rm_ok) ==
    (IF started /\ cat_ok THEN {"overwritten"} ELSE {})
        \cup (IF started /\ rm_ok THEN {"rm_remote"} ELSE {})

\* The move command exits; the function raises `failed` or returns `updated`.
MoveExits(c, failed, updated) ==
    \E started, cat_ok, rm_ok \in BOOLEAN :
        LET r == IF MoveCode(started, cat_ok, rm_ok) # 0 THEN failed ELSE updated
        IN  Return(c, r, Cleanup(eff[c] \cup MoveEffects(started, cat_ok, rm_ok), r))

\* `docker exec bash -c 'cat tmp > path; rm tmp'` exits.
ExecExits(c) ==
    /\ pc[c] = "exec"
    /\ MoveExits(c, MvFailed, JsonUpdated)
    /\ UNCHANGED <<contexts, apart, req, files, observed, marks>>

\* ------------------------------------ update_file_on_remote_container
\* `docker cp` exits.
CpFileExits(c) ==
    /\ pc[c] = "cp_file"
    /\ \E returncode \in {0, 1} :
        IF returncode # 0
        THEN EditorExit(c, CpFailed)
        ELSE Suspend(c, "exec_file", locks, eff[c] \cup {"exec"})
    /\ UNCHANGED <<contexts, apart, req, files, observed, marks>>

\* `docker exec bash -c 'cat tmp > path; rm tmp'` exits.
ExecFileExits(c) ==
    /\ pc[c] = "exec_file"
    /\ MoveExits(c, FileMvFailed, FileUpdated)
    /\ UNCHANGED <<contexts, apart, req, files, observed, marks>>

\* ------------------------------------------------------- specification
NoCall == [fn |-> "none"]
NoTmpFiles == [n \in {} |-> ""]
NoHost == [original |-> "unset", used |-> "none", cmd |-> "none"]

\* Nothing is applied on its own, /tmp holds no mount file and DOCKER_HOST is
\* not set when the server starts.
InitApart ==
    /\ call = NoCall
    /\ tmpfiles = NoTmpFiles
    /\ environ = "unset"
    /\ host = [c \in Calls |-> NoHost]

\* __main__ of app.py: `_DOCKER_CONTEXTS = docker_context_ls()`, run once
\* before the server accepts requests.
Init ==
    /\ \E returncode \in {0, 1} : contexts = docker_context_ls(returncode)
    /\ locks = EmptyLocks
    /\ pc = [c \in Calls |-> "idle"]
    /\ req = [c \in Calls |-> NoRequest]
    /\ res = [c \in Calls |-> NoResult]
    /\ eff = [c \in Calls |-> {}]
    /\ files = [c \in Calls |-> NoFiles]
    /\ observed = [c \in Calls |-> -1]
    /\ marks = [c \in Calls |-> <<>>]
    /\ staged = {}
    /\ InitApart

AllRequests ==
    RunRequests \cup MountRequests \cup InspectRequests
        \cup UpdateFileRequests \cup UpdateJsonRequests

\* The requests of clients that only compete for the locks: the plain run
\* endpoint, any context name, one document of each kind of validation
\* outcome.
CompetingRequests ==
    {Request_("run", ctx, y, 0) :
        ctx \in Names,
        y \in {Yaml("malformed", 0), Yaml("nonmapping", 0), Yaml("services", 1)}}

\* A client that keeps deploying one document to context "a".
RedeployRequests == {Request_("run", "a", Yaml("services", 1), 0)}

\* What a suspended handler does when the operation it awaits returns.
Resume(c) ==
    \/ SshConnected(c)
    \/ \E f \in 1..MaxFiles : PutReturns(c, f)
    \/ \E f \in 1..MaxFiles : SleepReturns(c, f)
    \/ CopyJoin(c)
    \/ PruneExits(c)
    \/ UpExits(c)
    \/ PsExits(c)
    \/ ComposePsExits(c)
    \/ InspectExits(c)
    \/ CatExits(c)
    \/ CpExits(c)
    \/ ExecExits(c)

\* Concurrent clients of the plain run endpoint.
Next ==
    \E c \in Calls :
        \/ Request(c, CompetingRequests)
        \/ PruneExits(c)
        \/ UpExits(c)
        \/ PsExits(c)

Spec == Init /\ [][Next]_vars

\* One client of every endpoint, with every request (handler 1), beside a
\* client that keeps redeploying to context "a" (handler 2).
NextClient ==
    \/ Request(1, AllRequests)
    \/ Request(2, RedeployRequests)
    \/ \E c \in {1, 2} : Resume(c)

SpecClient == Init /\ [][NextClient]_vars

\* The requests of a client of the mounts endpoint whose runs go through
\* every stage.
StagedRunRequests ==
    {Request_("run_mounts", ctx, y, m) :
        ctx \in {"a", "b"},
        y \in {Yaml("malformed", 0), Yaml("services", 1)},
        m \in 0..MaxFiles}

\* What a suspended run does when the operation it awaits returns.
RunResume(c) ==
    \/ SshConnected(c)
    \/ \E f \in 1..MaxFiles : PutReturns(c, f)
    \/ \E f \in 1..MaxFiles : SleepReturns(c, f)
    \/ CopyJoin(c)
    \/ PruneExits(c)
    \/ UpExits(c)
    \/ PsExits(c)

\* A client of the mounts endpoint (handler 1) beside a client that keeps
\* redeploying to context "a" (handler 2).
NextRuns ==
    \/ Request(1, StagedRunRequests)
    \/ Request(2, RedeployRequests)
    \/ \E c \in {1, 2} : RunResume(c)

\* The event loop resumes a coroutine whose awaited operation has returned,
\* and every external command, connection, put and sleep returns: a handler
\* that is suspended at an await is resumed in the end.  Clients need not
\* send any request.
SpecRunsFair ==
    /\ Init
    /\ [][NextRuns]_vars
    /\ \A c \in {1, 2} : WF_vars(RunResume(c))

\* The requests of the inspect and update endpoints, and the calls of
\* update_file_on_remote_container.
EditorRequests ==
    InspectRequests \cup UpdateFileRequests \cup UpdateJsonRequests
        \cup UpdateFileCalls

\* A client of the inspect and update operations (handler 1) beside a client
\* that keeps redeploying to context "a" (handler 2).
NextEditor ==
    \/ Request(1, EditorRequests)
    \/ Request(2, RedeployRequests)
    \/ \E c \in {1, 2} :
        \/ PruneExits(c)
        \/ UpExits(c)
        \/ PsExits(c)
        \/ ComposePsExits(c)
        \/ InspectExits(c)
        \/ CatExits(c)
        \/ CpExits(c)
        \/ ExecExits(c)
        \/ CpFileExits(c)
        \/ ExecFileExits(c)

SpecEditor == Init /\ [][NextEditor]_vars

\* --------------------------------------- copy_mount_files, on its own
\* Texts are sequences of characters.  Two characters are enough to form
\* paths with directories and tokens that overlap themselves or a path.
Alphabet == {"a", "/"}
Texts(n) == UNION {[1..k -> Alphabet] : k \in 0..n}
Words(n) == Texts(n) \ {<<>>}

\* The token t occurs in the text s.
Occurs(t, s) ==
    \E i \in 1..(Len(s) - Len(t) + 1) : SubSeq(s, i, i + Len(t) - 1) = t

\* Mutant of Replace: only the first occurrence is replaced, as by
\* str.replace(old, new, 1).
RECURSIVE ReplaceFirst(_, _, _)
ReplaceFirst(s, old, new) ==
    IF Len(s) < Len(old) THEN s
    ELSE IF SubSeq(s, 1, Len(old)) = old
    THEN new \o SubSeq(s, Len(old) + 1, Len(s))
    ELSE <<Head(s)>> \o ReplaceFirst(Tail(s), old, new)

\* str.replace(old, new) for a non-empty old: the text is scanned from the
\* left, every occurrence found is replaced and the scan goes on behind it.
RECURSIVE Replace(_, _, _)
Replace(s, old, new) ==
    IF Len(s) < Len(old) THEN s
    ELSE IF SubSeq(s, 1, Len(old)) = old
    THEN new \o Replace(SubSeq(s, Len(old) + 1, Len(s)), old, new)
    ELSE <<Head(s)>> \o Replace(Tail(s), old, new)

\* Path(source).name: trailing slashes do not count, and the name is what
\* follows the last slash; "/" has the empty name.
RECURSIVE StripSlashes(_)
StripSlashes(p) ==
    IF p # <<>> /\ p[Len(p)] = "/" THEN StripSlashes(SubSeq(p, 1, Len(p) - 1)) ELSE p

RECURSIVE LastPart(_)
LastPart(p) ==
    IF p = <<>> \/ p[Len(p)] = "/" THEN <<>>
    ELSE LastPart(SubSeq(p, 1, Len(p) - 1)) \o <<p[Len(p)]>>

PathName(p) == LastPart(StripSlashes(p))

\* A mount of the request: the key of the dictionary (the token), and the
\* source path and the file content of its value.
Mount(token, source, file) == [token |-> token, source |-> source, file |-> file]

\* Path(f"/tmp/{file_name}").write_text(content)
WriteTmp(tmp, name, content) ==
    [n \in DOMAIN tmp \cup {name} |-> IF n = name THEN content ELSE tmp[n]]

\* The loop of copy_mount_files over mounts.items(), from the state st on.
\* Writing to "/tmp/" (an empty name) raises IsADirectoryError.
RECURSIVE StageFrom(_, _)
StageFrom(ms, st) ==
    IF ms = <<>> THEN st
    ELSE LET m == Head(ms)
             text == Replace(st.compose_config, m.token, m.source)
             name == PathName(m.source)
         IN  IF name = <<>>
             THEN [st EXCEPT !.compose_config = text, !.raised = "IsADirectoryError"]
             ELSE StageFrom(Tail(ms),
                    [compose_config |-> text,
                     tmp |-> WriteTmp(st.tmp, name, m.file),
                     files_to_copy |-> Append(st.files_to_copy,
                                              [local |-> name, remote |-> m.source]),
                     raised |-> ""])

\* copy_mount_files up to its await: the loop runs without suspension.
StageMounts ==
    /\ call.fn = "copy_mount_files"
    /\ call.stage = "called"
    /\ LET st == StageFrom(call.mounts,
                    [compose_config |-> call.compose_config, tmp |-> tmpfiles,
                     files_to_copy |-> <<>>, raised |-> ""])
       IN  /\ call' = [call EXCEPT
                    !.stage = IF st.raised = "" THEN "copying" ELSE "raised",
                    !.result = st.compose_config,
                    !.files_to_copy = st.files_to_copy,
                    !.raised = st.raised]
           /\ tmpfiles' = st.tmp
    /\ UNCHANGED <<contexts, locks, pc, req, res, eff, files, observed, marks,
                   staged, environ, host>>

\* copy_files: every sftp.put(local, remote) sends what the local file holds
\* when it is read; copy_mount_files then returns the text.
TransferFiles ==
    /\ call.fn = "copy_mount_files"
    /\ call.stage = "copying"
    /\ call' = [call EXCEPT
            !.stage = "returned",
            !.sent = [i \in DOMAIN call.files_to_copy |->
                        tmpfiles[call.files_to_copy[i].local]]]
    /\ UNCHANGED <<contexts, locks, pc, req, res, eff, files, observed, marks,
                   staged, tmpfiles, environ, host>>

\* The finally block of docker_compose_run on its own: `del
\* _CONTEXT_LOCKS[context]` on the table as it stands.
DeleteLock ==
    /\ call.fn = "del _CONTEXT_LOCKS[context]"
    /\ call.stage = "called"
    /\ call' = [call EXCEPT
            !.stage = IF ReleaseRaises(locks, call.context) THEN "raised" ELSE "returned",
            !.raised = IF ReleaseRaises(locks, call.context) THEN "KeyError" ELSE ""]
    /\ locks' = Release(locks, call.context)
    /\ UNCHANGED <<contexts, pc, req, res, eff, files, observed, marks,
                   staged, tmpfiles, environ, host>>

\* The arguments of copy_mount_files: one mount and any text, or two mounts
\* with any two source paths and file contents.
MountCall(mounts, text) ==
    [fn |-> "copy_mount_files", stage |-> "called", mounts |-> mounts,
     compose_config |-> text, result |-> <<>>, files_to_copy |-> <<>>,
     sent |-> <<>>, raised |-> ""]

MountCalls ==
    {MountCall(<<Mount(t, p, "p")>>, text) :
        t \in Words(MaxWord), p \in Words(MaxWord), text \in Texts(MaxText)}
    \cup
    {MountCall(<<Mount(<<"a">>, p, f), Mount(<<"/">>, q, g)>>, <<>>) :
        p \in Words(MaxWord), q \in Words(MaxWord), f \in {"p", "q"}, g \in {"p", "q"}}

DeleteCall(ctx, l) ==
    [fn |-> "del _CONTEXT_LOCKS[context]", stage |-> "called", context |-> ctx,
     before |-> l, raised |-> ""]

\* The lock tables: any set of names, each with the value True.
LockTables == {[n \in S |-> TRUE] : S \in SUBSET Names}

\* A function is applied to arguments drawn from the sets above.
InitFunctions ==
    /\ contexts = ConfiguredContexts
    /\ pc = [c \in Calls |-> "idle"]
    /\ req = [c \in Calls |-> NoRequest]
    /\ res = [c \in Calls |-> NoResult]
    /\ eff = [c \in Calls |-> {}]
    /\ files = [c \in Calls |-> NoFiles]
    /\ observed = [c \in Calls |-> -1]
    /\ marks = [c \in Calls |-> <<>>]
    /\ staged = {}
    /\ tmpfiles = NoTmpFiles
    /\ environ = "unset"
    /\ host = [c \in Calls |-> NoHost]
    /\ \/ locks = EmptyLocks /\ call \in MountCalls
       \/ \E l \in LockTables, ctx \in Names : locks = l /\ call = DeleteCall(ctx, l)

NextFunctions ==
    \/ StageMounts
    \/ TransferFiles
    \/ DeleteLock

SpecFunctions == InitFunctions /\ [][NextFunctions]_vars

\* ------------------------------------ src/factory: DOCKER_HOST selection
\* The command a call started last: the value of DOCKER_HOST the call saved
\* on entry, the value the command was started with and which command it is.
Command(original, used, cmd) ==
    [original |-> original, used |-> used, cmd |-> cmd]

\* The finally blocks: `if original_docker_host: os.environ["DOCKER_HOST"] =
\* original_docker_host else: os.environ.pop("DOCKER_HOST", None)`, where
\* os.environ.get returned None for a variable that is not set.
Restore(original) == IF original \in {"unset", ""} THEN "unset" ELSE original

\* One stretch of a factory handler between two awaits: where it stops, its
\* answer, the lock table, DOCKER_HOST and the command it started.
FactoryStep(c, at, r, l, env, h) ==
    /\ pc' = [pc EXCEPT ![c] = at]
    /\ res' = [res EXCEPT ![c] = r]
    /\ locks' = l
    /\ environ' = env
    /\ host' = [host EXCEPT ![c] = h]

\* docker_compose_run of src/factory leaves its try block with r: the finally
\* block deletes the lock entry, then restores DOCKER_HOST.
FactoryRunExit(c, r) ==
    LET ctx == req[c].context
    IN  IF ReleaseRaises(locks, ctx)
        THEN FactoryStep(c, "done", Unhandled("KeyError"), locks, environ, NoHost)
        ELSE FactoryStep(c, "done", r, Release(locks, ctx),
                         Restore(host[c].original), NoHost)

\* docker_inspect_containers of src/factory leaves its try block with r.
FactoryInspectExit(c, r) ==
    FactoryStep(c, "done", r, locks, Restore(host[c].original), NoHost)

\* docker_compose_run of src/factory, without mounts, up to its first await.
factory_docker_compose_run(c, r) ==
    LET ctx == r.context
        original_docker_host == environ
        l == Acquire(locks, ctx)
        docker_host == contexts[ctx]
    IN  IF LockHeld(locks, ctx)
        THEN /\ FactoryStep(c, "done", ContextBusy, locks, environ, NoHost)
             /\ UNCHANGED staged
        ELSE IF YAMLError(r.yaml)
        THEN /\ FactoryStep(c, "done", InvalidYaml, Release(l, ctx),
                            Restore(original_docker_host), NoHost)
             /\ UNCHANGED staged
        ELSE /\ FactoryStep(c, "f_up", NoResult, l, docker_host,
                            Command(original_docker_host, docker_host, "up"))
             /\ staged' = staged \cup {ctx}

\* docker_inspect_containers of src/factory up to its first await.
factory_docker_inspect_containers(c, r) ==
    LET original_docker_host == environ
        docker_host == contexts[r.context]
    IN  /\ FactoryStep(c, "f_compose_ps", NoResult, locks, docker_host,
                       Command(original_docker_host, docker_host, "compose ps"))
        /\ UNCHANGED staged

\* The requests of the endpoints of src/factory/app/app.py.
FactoryRequests ==
    {Request_("run", ctx, y, 0) :
        ctx \in Names, y \in {Yaml("malformed", 0), Yaml("services", 1)}}
    \cup InspectRequests

\* A client that keeps deploying to context "b" and inspecting it.
OtherContextRequests ==
    {Request_("run", "b", Yaml("services", 1), 0), Request_("inspect", "b", NoYaml, 0)}

\* An endpoint of src/factory/app/app.py receives a request of R.
FactoryRequest(c, R) ==
    /\ pc[c] \in {"idle", "done"}
    /\ \E r \in R :
        /\ req' = [req EXCEPT ![c] = r]
        /\ IF r.context \notin DOMAIN contexts
           THEN /\ FactoryStep(c, "done", InvalidContext, locks, environ, NoHost)
                /\ UNCHANGED staged
           ELSE IF r.op = "run"
           THEN factory_docker_compose_run(c, r)
           ELSE factory_docker_inspect_containers(c, r)
    /\ marks' = [marks EXCEPT ![c] = <<>>]
    /\ UNCHANGED <<contexts, eff, files, observed, call, tmpfiles>>

\* Mutant of FactoryUpExits: the convergence query is started with the
\* endpoint of the call's own context in its environment.
FactoryUpExitsOwnHost(c) ==
    /\ pc[c] = "f_up"
    /\ \E returncode \in {0, 1} :
        IF returncode # 0
        THEN FactoryRunExit(c, UpFailed)
        ELSE FactoryStep(c, "f_ps", NoResult, locks, environ,
                         Command(host[c].original, contexts[req[c].context],
                                 "ps"))
    /\ UNCHANGED <<contexts, req, eff, files, observed, marks, staged, call, tmpfiles>>

\* `docker-compose up` exits; on success _get_compose_service_states starts
\* `docker-compose ps --services` with env=os.environ.
FactoryUpExits(c) ==
    /\ pc[c] = "f_up"
    /\ \E returncode \in {0, 1} :
        IF returncode # 0
        THEN FactoryRunExit(c, UpFailed)
        ELSE FactoryStep(c, "f_ps", NoResult, locks, environ,
                         Command(host[c].original, environ, "ps"))
    /\ UNCHANGED <<contexts, req, eff, files, observed, marks, staged, call, tmpfiles>>

\* `docker-compose ps --services` exits, having printed m names.
FactoryPsExits(c) ==
    /\ pc[c] = "f_ps"
    /\ \E returncode \in {0, 1}, m \in 0..MaxServices :
        FactoryRunExit(c, IF returncode # 0 THEN CheckFailed
                          ELSE Convergence(req[c].yaml, m))
    /\ UNCHANGED <<contexts, req, eff, files, observed, marks, staged, call, tmpfiles>>

\* `docker compose ps -aq` exits, having printed k container ids; the first
\* `docker inspect` is started in the environment of the process.
FactoryComposePsExits(c) ==
    /\ pc[c] = "f_compose_ps"
    /\ \E returncode \in {0, 1}, k \in 0..MaxContainers :
        IF returncode # 0
        THEN /\ FactoryInspectExit(c, InspectError)
             /\ UNCHANGED marks
        ELSE IF k = 0
        THEN /\ FactoryInspectExit(c, InspectData)
             /\ UNCHANGED marks
        ELSE /\ FactoryStep(c, "f_inspect", NoResult, locks, environ,
                            Command(host[c].original, environ, "inspect"))
             /\ marks' = [marks EXCEPT ![c] = [i \in 1..k |-> "pending"]]
    /\ UNCHANGED <<contexts, req, eff, files, observed, staged, call, tmpfiles>>

\* `docker inspect` of the next listed container exits; the one for the
\* container after it, if any, is started in the environment of the process.
FactoryInspectExits(c) ==
    /\ pc[c] = "f_inspect"
    /\ \E returncode \in {0, 1} :
        LET i == CHOOSE j \in DOMAIN marks[c] :
                    /\ marks[c][j] = "pending"
                    /\ \A h \in 1..(j - 1) : marks[c][h] # "pending"
            m2 == [marks[c] EXCEPT ![i] =
                    IF returncode = 0 THEN "data" ELSE "Failed to collect Data!!"]
        IN  /\ marks' = [marks EXCEPT ![c] = m2]
            /\ IF i < Len(m2)
               THEN FactoryStep(c, "f_inspect", NoResult, locks, environ,
                                Command(host[c].original, environ, "inspect"))
               ELSE FactoryInspectExit(c, InspectData)
    /\ UNCHANGED <<contexts, req, eff, files, observed, staged, call, tmpfiles>>

\* The process of src/factory and the value DOCKER_HOST has when it starts.
FactoryProcess(docker_host) == [fn |-> "factory", DOCKER_HOST |-> docker_host]

\* __main__ of src/factory/app/app.py: `_DOCKER_CONTEXTS =
\* docker_context_ls()`; DOCKER_HOST is set or not in the environment the
\* server is started in.
InitFactory ==
    /\ \E returncode \in {0, 1} : contexts = docker_context_ls(returncode)
    /\ locks = EmptyLocks
    /\ pc = [c \in Calls |-> "idle"]
    /\ req = [c \in Calls |-> NoRequest]
    /\ res = [c \in Calls |-> NoResult]
    /\ eff = [c \in Calls |-> {}]
    /\ files = [c \in Calls |-> NoFiles]
    /\ observed = [c \in Calls |-> -1]
    /\ marks = [c \in Calls |-> <<>>]
    /\ staged = {}
    /\ tmpfiles = NoTmpFiles
    /\ host = [c \in Calls |-> NoHost]
    /\ environ \in {"unset", "tcp://preset"}
    /\ call = FactoryProcess(environ)

\* One client of every endpoint, with every request (handler 1), beside a
\* client of context "b" (handler 2).
NextFactory ==
    \/ FactoryRequest(1, FactoryRequests)
    \/ FactoryRequest(2, OtherContextRequests)
    \/ \E c \in {1, 2} :
        \/ FactoryUpExits(c)
        \/ FactoryPsExits(c)
        \/ FactoryComposePsExits(c)
        \/ FactoryInspectExits(c)

SpecFactory == InitFactory /\ [][NextFactory]_vars

\* ------------- update_json_file_on_remote_container, with the file content
\* What a file holds: nothing, a JSON object (a dictionary of keys and
\* values), or text that is no JSON document.
EmptyFile == [kind |-> "empty", doc |-> EmptyDict]
GarbageFile == [kind |-> "garbage", doc |-> EmptyDict]

\* json.dumps(merged_content, indent=4)
Dumps(d) == [kind |-> "json", doc |-> d]

\* `json.loads(stdout.decode()) if stdout else {}`: json.loads raises on text
\* that is no JSON document; empty output is not parsed.
LoadsRaises(text) == text.kind = "garbage"
Loads(text) == IF text.kind = "empty" THEN EmptyDict ELSE text.doc

\* jsonmerge.merge(existing_content, json_content) on objects with plain
\* values: every key of either, with the value of the new content where it
\* has the key.
Merge(base, head) ==
    [k \in DOMAIN base \cup DOMAIN head |->
        IF k \in DOMAIN head THEN head[k] ELSE base[k]]

\* The file of the container before any call, and the json_content of the
\* calls: handler 1 sends key k1, handler 2 key k2 or another value for k1.
OriginalFiles == {EmptyFile, GarbageFile, Dumps([k \in {"k0"} |-> "old"])}
JsonContents(c) ==
    IF c = 1 THEN {[k \in {"k1"} |-> "n1"]}
    ELSE {[k \in {"k2"} |-> "n2"], [k \in {"k1"} |-> "m1"]}

\* The container: the file at file_path, what it held at first, the
\* temporary files copied into it (by the call they belong to), and the
\* json_content each call was given.
Container(file, original, tmp, json_content) ==
    [fn |-> "update_json_file_on_remote_container", file |-> file,
     original |-> original, tmp |-> tmp, json_content |-> json_content]

\* One stretch of update_json_file_on_remote_container between two awaits.
JsonStep(c, at, r, E) ==
    /\ pc' = [pc EXCEPT ![c] = at]
    /\ res' = [res EXCEPT ![c] = r]
    /\ eff' = [eff EXCEPT ![c] = E]

\* The finally block: `if temp_file: os.remove(temp_file.name)`.
RemoveTmp(tmp, c) == [n \in DOMAIN tmp \ {c} |-> tmp[n]]

\* update_json_file_on_remote_container is called and starts `docker exec
\* cat`.
JsonCall(c) ==
    /\ c \in DOMAIN call.json_content
    /\ pc[c] = "idle"
    /\ req' = [req EXCEPT ![c] = Request_("update_json_file", "a", NoYaml, 0)]
    /\ JsonStep(c, "j_cat", NoResult, {"cat"})
    /\ UNCHANGED <<contexts, locks, files, observed, marks, staged, call,
                   tmpfiles, environ, host>>

\* `docker exec cat` exits with the content the file has now; the merged
\* document is written to a temporary file of the call and `docker cp` is
\* started.
JsonCatExits(c) ==
    /\ pc[c] = "j_cat"
    /\ \E returncode \in {0, 1} :
        IF returncode # 0
        THEN /\ JsonStep(c, "done", ReadFailed, eff[c])
             /\ UNCHANGED tmpfiles
        ELSE IF LoadsRaises(call.file)
        THEN /\ JsonStep(c, "done", Unhandled("JSONDecodeError"),
                         eff[c] \cup {"undecodable"})
             /\ UNCHANGED tmpfiles
        ELSE /\ JsonStep(c, "j_cp", NoResult, eff[c] \cup {"tmpfile", "cp"})
             /\ tmpfiles' = WriteTmp(tmpfiles, c,
                    Dumps(Merge(Loads(call.file), call.json_content[c])))
    /\ UNCHANGED <<contexts, locks, req, files, observed, marks, staged, call,
                   environ, host>>

\* `docker cp` exits, having copied the temporary file into the container
\* when it succeeded; the move command is started.
JsonCpExits(c) ==
    /\ pc[c] = "j_cp"
    /\ \E returncode \in {0, 1} :
        IF returncode # 0
        THEN /\ JsonStep(c, "done", CpFailed, eff[c] \cup {"rmtmp"})
             /\ tmpfiles' = RemoveTmp(tmpfiles, c)
             /\ UNCHANGED call
        ELSE /\ JsonStep(c, "j_exec", NoResult, eff[c] \cup {"exec"})
             /\ call' = [call EXCEPT !.tmp = WriteTmp(call.tmp, c, tmpfiles[c])]
             /\ UNCHANGED tmpfiles
    /\ UNCHANGED <<contexts, locks, req, files, observed, marks, staged,
                   environ, host>>

\* `docker exec bash -c 'cat tmp > path; rm tmp'` exits.  An overwrite that
\* worked leaves the content of the temporary file at file_path; one that
\* did not leaves the file as it was, or empty when the redirection had
\* truncated it.
JsonMoveExits(c) ==
    /\ pc[c] = "j_exec"
    /\ \E started, cat_ok, rm_ok, truncated \in BOOLEAN :
        LET r == IF MoveCode(started, cat_ok, rm_ok) # 0 THEN MvFailed ELSE JsonUpdated
            did == MoveEffects(started, cat_ok, rm_ok)
        IN  /\ cat_ok => ~truncated
            /\ JsonStep(c, "done", r, eff[c] \cup did \cup {"rmtmp"})
            /\ call' = [call EXCEPT
                    !.file = IF "overwritten" \in did THEN call.tmp[c]
                             ELSE IF started /\ truncated THEN EmptyFile
                             ELSE call.file,
                    !.tmp = IF "rm_remote" \in did THEN RemoveTmp(call.tmp, c)
                            ELSE call.tmp]
            /\ tmpfiles' = RemoveTmp(tmpfiles, c)
    /\ UNCHANGED <<contexts, locks, req, files, observed, marks, staged,
                   environ, host>>

\* Two calls on one container and one path.
InitMerge ==
    /\ contexts = ConfiguredContexts
    /\ locks = EmptyLocks
    /\ pc = [c \in Calls |-> "idle"]
    /\ req = [c \in Calls |-> NoRequest]
    /\ res = [c \in Calls |-> NoResult]
    /\ eff = [c \in Calls |-> {}]
    /\ files = [c \in Calls |-> NoFiles]
    /\ observed = [c \in Calls |-> -1]
    /\ marks = [c \in Calls |-> <<>>]
    /\ staged = {}
    /\ tmpfiles = NoTmpFiles
    /\ environ = "unset"
    /\ host = [c \in Calls |-> NoHost]
    /\ \E original \in OriginalFiles, j1 \in JsonContents(1), j2 \in JsonContents(2) :
        call = Container(original, original, NoTmpFiles,
                         [c \in {1, 2} |-> IF c = 1 THEN j1 ELSE j2])

NextMerge ==
    \E c \in {1, 2} :
        \/ JsonCall(c)
        \/ JsonCatExits(c)
        \/ JsonCpExits(c)
        \/ JsonMoveExits(c)

SpecMerge == InitMerge /\ [][NextMerge]_vars

\* --------------------------- copy_mount_files of two runs at the same time
\* The copy_mount_files call of a run for context ctx with one mount.
StagingCall(ctx, mounts) ==
    [context |-> ctx, stage |-> "idle", mounts |-> mounts,
     files_to_copy |-> <<>>, sent |-> <<>>, raised |-> ""]

\* The runs: handler 1 deploys to context "a" and mounts payload "p",
\* handler 2 deploys to context "b" and mounts payload "q", each at any
\* source path.
StagingCalls(c) ==
    {StagingCall(IF c = 1 THEN "a" ELSE "b",
                 <<Mount(<<"a">>, source, IF c = 1 THEN "p" ELSE "q")>>) :
        source \in Words(MaxWord)}

TwoRuns(of) == [fn |-> "docker_compose_run with mounts", of |-> of]

\* copy_mount_files of handler c up to its await: the loop writes the scratch
\* files, then copy_files awaits asyncssh.connect.
StagingStarts(c) ==
    /\ call.of[c].stage = "idle"
    /\ LET st == StageFrom(call.of[c].mounts,
                    [compose_config |-> <<>>, tmp |-> tmpfiles,
                     files_to_copy |-> <<>>, raised |-> ""])
       IN  /\ call' = [call EXCEPT
                    !.of[c].stage = IF st.raised = "" THEN "connect" ELSE "raised",
                    !.of[c].files_to_copy = st.files_to_copy,
                    !.of[c].raised = st.raised]
           /\ tmpfiles' = st.tmp
    /\ UNCHANGED <<contexts, locks, pc, req, res, eff, files, observed, marks,
                   staged, environ, host>>

\* copy_files: asyncssh.connect and start_sftp_client return, or raise
\* asyncssh.Error, the 504 of copy_mount_files.
StagingConnected(c) ==
    /\ call.of[c].stage = "connect"
    /\ \E outcome \in {"ok", "asyncssh.Error"} :
        call' = [call EXCEPT
            !.of[c].stage = IF outcome = "ok" THEN "copy" ELSE "raised",
            !.of[c].raised = IF outcome = "ok" THEN "" ELSE "HTTPException 504"]
    /\ UNCHANGED <<contexts, locks, pc, req, res, eff, files, observed, marks,
                   staged, tmpfiles, environ, host>>

\* _copy_file: sftp.put(local_path, remote_path) sends what the local file
\* holds now to the host of the run.
StagingPut(c) ==
    /\ call.of[c].stage = "copy"
    /\ Len(call.of[c].sent) < Len(call.of[c].files_to_copy)
    /\ LET i == Len(call.of[c].sent) + 1
       IN  call' = [call EXCEPT
                !.of[c].sent = Append(@, tmpfiles[call.of[c].files_to_copy[i].local])]
    /\ UNCHANGED <<contexts, locks, pc, req, res, eff, files, observed, marks,
                   staged, tmpfiles, environ, host>>

\* The task group of copy_files is done and copy_mount_files returns.
StagingReturns(c) ==
    /\ call.of[c].stage = "copy"
    /\ Len(call.of[c].sent) = Len(call.of[c].files_to_copy)
    /\ call' = [call EXCEPT !.of[c].stage = "returned"]
    /\ UNCHANGED <<contexts, locks, pc, req, res, eff, files, observed, marks,
                   staged, tmpfiles, environ, host>>

InitStaging ==
    /\ contexts = ConfiguredContexts
    /\ locks = EmptyLocks
    /\ pc = [c \in Calls |-> "idle"]
    /\ req = [c \in Calls |-> NoRequest]
    /\ res = [c \in Calls |-> NoResult]
    /\ eff = [c \in Calls |-> {}]
    /\ files = [c \in Calls |-> NoFiles]
    /\ observed = [c \in Calls |-> -1]
    /\ marks = [c \in Calls |-> <<>>]
    /\ staged = {}
    /\ tmpfiles = NoTmpFiles
    /\ environ = "unset"
    /\ host = [c \in Calls |-> NoHost]
    /\ \E r1 \in StagingCalls(1), r2 \in StagingCalls(2) :
        call = TwoRuns([c \in {1, 2} |-> IF c = 1 THEN r1 ELSE r2])

NextStaging ==
    \E c \in {1, 2} :
        \/ StagingStarts(c)
        \/ StagingConnected(c)
        \/ StagingPut(c)
        \/ StagingReturns(c)

SpecStaging == InitStaging /\ [][NextStaging]_vars

\* =============================================================== claims
\* The awaits of docker_compose_run: a handler suspended at one of them is
\* between `_CONTEXT_LOCKS[context] = True` and the finally block.
RunAwaits == {"connect", "copy", "prune", "up", "ps"}
InFlight(c) == pc[c] \in RunAwaits
RunOps == {"run", "run_mounts"}

\* The table l holds a true entry for the name n.
Locked(l, n) == n \in DOMAIN l /\ l[n] = TRUE

\* This step is the arrival of a request at handler c.
Arrives(c) ==
    /\ pc[c] \in {"idle", "done"}
    /\ <<pc[c], req[c], res[c], eff[c]>> # <<pc'[c], req'[c], res'[c], eff'[c]>>

\* C1: for any one context name, at most one docker_compose_run call is
\* between its lock acquisition and its finally block, at every instant.
C1_OneRunPerContext ==
    \A c, d \in Calls :
        (c # d /\ InFlight(c) /\ InFlight(d)) => req[c].context # req[d].context

\* C1 witness: a run is suspended at its last await while a second call for
\* the same context has been turned away.
C1_Witness ==
    \E c, d \in Calls :
        /\ c # d
        /\ pc[c] = "ps"
        /\ pc[d] = "done"
        /\ req[d].context = req[c].context
        /\ res[d] = ContextBusy

\* C2: a call that finds the lock of its context held returns ContextBusy
\* in the same step, and has done nothing else: no remote command, no file
\* written, the lock table unchanged, the holder's entry still there.
C2_BusyDoesNothing ==
    [][\A c \in Calls :
        (Arrives(c) /\ req'[c].op \in RunOps /\ Locked(locks, req'[c].context)) =>
            /\ pc'[c] = "done"
            /\ res'[c] = ContextBusy
            /\ eff'[c] = {}
            /\ locks' = locks
            /\ Locked(locks', req'[c].context)]_vars

\* C2 witness: a call was turned away with ContextBusy, having done nothing,
\* while the holder of the lock is still waiting for its prune command.
C2_Witness ==
    \E c, d \in Calls :
        /\ c # d
        /\ pc[d] = "prune"
        /\ Locked(locks, req[d].context)
        /\ pc[c] = "done"
        /\ req[c].context = req[d].context
        /\ res[c] = ContextBusy
        /\ eff[c] = {}

\* C3: when a docker_compose_run call that acquired the lock completes, by
\* success or by any failure, the lock of its context is free; and a call is
\* turned away with ContextBusy only while another run for its context is
\* in flight, so the next call for a freed context acquires the lock.
C3_LockReleasedOnEveryExit ==
    [][\A c \in Calls :
        /\ (pc'[c] = "done" /\ pc[c] # "done" /\ "acquire" \in eff'[c]) =>
                /\ req'[c].context \notin DOMAIN locks'
                /\ "release" \in eff'[c]
        /\ (Arrives(c) /\ req'[c].op \in RunOps /\ req'[c].context \in DOMAIN contexts
                /\ ~\E d \in Calls \ {c} : InFlight(d) /\ req[d].context = req'[c].context) =>
                "acquire" \in eff'[c]]_vars

\* C3 witness: a run that held the lock has failed in the file transfer, and
\* the lock of its context is free again.
C3_Witness ==
    /\ pc[1] = "done"
    /\ res[1] = CopyFailed
    /\ "acquire" \in eff[1]
    /\ ~Locked(locks, req[1].context)

\* C4: the lock table has an entry for a context name exactly when one run
\* for that context is in flight, and every entry it has is true.
C4_LockTableMatchesRuns ==
    \A n \in Names \cup DOMAIN locks :
        /\ n \in DOMAIN locks <=>
                Cardinality({c \in Calls : InFlight(c) /\ req[c].context = n}) = 1
        /\ n \in DOMAIN locks => locks[n] = TRUE

\* C4 witness: one context is locked by a run in flight while the run of
\* another context has ended and its entry is gone.
C4_Witness ==
    \E c, d \in Calls :
        /\ InFlight(c)
        /\ DOMAIN locks = {req[c].context}
        /\ pc[d] = "done"
        /\ "release" \in eff[d]
        /\ req[d].context # req[c].context

\* C5: runs for different contexts do not exclude each other: a call is
\* turned away only when the lock of its own context is held, and while a
\* run for another context holds its lock a call for a free context
\* acquires its own.
C5_ContextsIndependent ==
    [][\A c \in Calls :
        (Arrives(c) /\ req'[c].op \in RunOps /\ req'[c].context \in DOMAIN contexts
            /\ ~Locked(locks, req'[c].context)) =>
                /\ res'[c] # ContextBusy
                /\ "acquire" \in eff'[c]
                /\ (pc'[c] # "done" => Locked(locks', req'[c].context))
                /\ \A n \in DOMAIN locks : Locked(locks', n)]_vars

\* C5 witness: two runs for two different contexts are in flight, each
\* holding the lock of its context.
C5_Witness ==
    \E c, d \in Calls :
        /\ InFlight(c) /\ InFlight(d)
        /\ req[c].context # req[d].context
        /\ Locked(locks, req[c].context)
        /\ Locked(locks, req[d].context)

\* C6: a run request that names a context absent from the registry is
\* answered with the invalid-context error and never takes the lock: the
\* lock table only ever holds names of the registry.
C6_UnknownContextTakesNoLock ==
    /\ \A c \in Calls :
        (req[c].op \in RunOps /\ req[c].context \notin DOMAIN contexts) =>
            /\ pc[c] = "done"
            /\ res[c] = InvalidContext
            /\ "acquire" \notin eff[c]
    /\ DOMAIN locks \subseteq DOMAIN contexts

\* C6 witness: a run for the unconfigured name "x" has been answered while
\* a run for a configured context is in flight.
C6_Witness ==
    \E c, d \in Calls :
        /\ req[c].op = "run" /\ req[c].context = "x"
        /\ res[c] = InvalidContext
        /\ InFlight(d)

\* C7: for a context name absent from the registry every endpoint returns
\* the unknown-context error, having issued no remote command, no file
\* transfer and no write of a file.
C7_UnknownContextNoEffects ==
    \A c \in Calls :
        (req[c].op # "none" /\ req[c].context \notin DOMAIN contexts) =>
            /\ pc[c] = "done"
            /\ res[c] = InvalidContext
            /\ eff[c] = {}

\* C7 witness: the update_json_file endpoint has answered a request for the
\* unconfigured name "x" while the registry holds the configured contexts.
C7_Witness ==
    /\ req[1].op = "update_json_file"
    /\ req[1].context = "x"
    /\ DOMAIN contexts = {"a", "b"}
    /\ res[1] = InvalidContext

\* C8 (as claimed): after a bring-up that exited zero, a run whose document
\* declares N services and whose convergence query reported M running ones
\* returns the convergence error whenever M # N, and a success only if M = N.
C8_Claim ==
    \A c \in Calls :
        (pc[c] = "done" /\ req[c].yaml.kind \in {"nokey", "services"} /\ observed[c] >= 0) =>
            /\ observed[c] # DeclaredCount(req[c].yaml) => res[c] = CountMismatch
            /\ res[c] = RunResult => observed[c] = DeclaredCount(req[c].yaml)

\* C9 (as claimed): a file whose transfer failed on all three attempts makes
\* the run fail with the transfer error, before the prune and the bring-up
\* command are issued.
C9_Claim ==
    \A c \in Calls : \A f \in DOMAIN files[c] :
        (files[c][f].phase = "done" /\ ~files[c][f].ok /\ pc[c] # "copy") =>
            /\ "prune" \notin eff[c]
            /\ "up" \notin eff[c]
            /\ pc[c] = "done" => res[c] = CopyFailed

\* C10: a file transfer makes at most 3 put attempts; and when every file of
\* a run has been put, on whichever attempt, the run goes on exactly as after
\* first-attempt successes: it writes the staged file and starts the prune
\* command, and no error of a failed attempt is surfaced.
C10_RetriesInvisible ==
    /\ [](\A c \in Calls : \A f \in DOMAIN files[c] : files[c][f].puts <= AttemptsLimit)
    /\ [][\A c \in Calls :
            (pc[c] = "copy" /\ pc'[c] # "copy"
                /\ \A f \in DOMAIN files[c] : files[c][f].ok) =>
                    /\ pc'[c] = "prune"
                    /\ res'[c] = NoResult
                    /\ eff'[c] = eff[c] \cup {"staged", "prune"}]_vars

\* C10 witness: a transfer has succeeded on its third put, after two failed
\* ones.
C10_Witness ==
    \E f \in DOMAIN files[1] :
        /\ pc[1] = "copy"
        /\ files[1][f] = FileTask(3, "done", TRUE)

\* C11: a run whose compose text is malformed YAML is answered with the
\* validation error in the step that acquired the lock, the lock is released
\* in that same step, and the run has issued no mount transfer, no prune, no
\* bring-up and no convergence query: acquiring and releasing is all it did.
C11_MalformedSpecRejected ==
    /\ [](\A c \in Calls :
            (req[c].op \in RunOps /\ req[c].yaml.kind = "malformed"
                /\ "acquire" \in eff[c]) =>
                    /\ pc[c] = "done"
                    /\ res[c] = InvalidYaml
                    /\ eff[c] = {"acquire", "release"})
    /\ [][\A c \in Calls :
            (Arrives(c) /\ req'[c].op \in RunOps /\ req'[c].yaml.kind = "malformed"
                /\ "acquire" \in eff'[c]) =>
                    /\ req'[c].context \notin DOMAIN locks'
                    /\ staged' = staged]_vars

\* C11 witness: a run with one mount file and a malformed document has been
\* answered with the validation error, and the lock of its context is free.
C11_Witness ==
    /\ pc[1] = "done"
    /\ req[1] = Request_("run_mounts", "b", Yaml("malformed", 0), 1)
    /\ res[1] = InvalidYaml
    /\ eff[1] = {"acquire", "release"}
    /\ "b" \notin DOMAIN locks

\* C12 (as claimed): a compose text that parses without a syntax error and
\* has no top-level "services" key, an empty document or a document whose
\* top level is no mapping included, passes validation: the run that acquired
\* the lock is not ended by validation, neither with the validation error
\* nor with an exception of the lookup of the key.
C12_Claim ==
    \A c \in Calls :
        (req[c].op \in RunOps /\ req[c].yaml.kind \in {"nokey", "nonmapping"}
            /\ "acquire" \in eff[c]) =>
                /\ res[c] \notin {InvalidYaml, Unhandled("AttributeError")}
                /\ eff[c] # {"acquire", "release"}

\* Some mount file of the run of handler c failed on every attempt.
TransferExhausted(c) ==
    \E f \in DOMAIN files[c] : files[c][f].phase = "done" /\ ~files[c][f].ok

\* C13 (as claimed): every failure of a finished run is answered with the
\* status of its kind: unknown context 400, busy context 409, malformed
\* document 400, failed mount transfer 504, failed prune, bring-up or
\* convergence query 500, and a running count that differs from the declared
\* count 500.
C13_Claim ==
    \A c \in Calls :
        (pc[c] = "done" /\ req[c].op \in RunOps) =>
            /\ req[c].context \notin DOMAIN contexts => res[c].status = 400
            /\ (req[c].context \in DOMAIN contexts /\ eff[c] = {}) => res[c].status = 409
            /\ (req[c].yaml.kind = "malformed" /\ "acquire" \in eff[c]) => res[c].status = 400
            /\ TransferExhausted(c) => res[c].status = 504
            /\ ("prune" \in eff[c] /\ "prune_ok" \notin eff[c] /\ ~TransferExhausted(c)) =>
                    res[c].status = 500
            /\ ("up" \in eff[c] /\ "up_ok" \notin eff[c] /\ ~TransferExhausted(c)) =>
                    res[c].status = 500
            /\ ("ps" \in eff[c] /\ observed[c] = -1 /\ ~TransferExhausted(c)) =>
                    res[c].status = 500
            /\ (observed[c] >= 0 /\ req[c].yaml.kind \in {"nokey", "services"}
                    /\ observed[c] # DeclaredCount(req[c].yaml) /\ ~TransferExhausted(c)) =>
                    res[c].status = 500

\* The documents that pass the validation of docker_compose_run.
ValidKinds == {"nokey", "null", "services"}

C15_FailedCommandStopsRun ==
    /\ [][\A c \in Calls :
            /\ (pc[c] = "prune" /\ pc'[c] # "prune" /\ "prune_ok" \notin eff'[c]) =>
                    /\ pc'[c] = "done"
                    /\ res'[c] = PruneFailed
                    /\ eff'[c] \cap {"up", "ps"} = {}
                    /\ req'[c].context \notin DOMAIN locks'
            /\ (pc[c] = "up" /\ pc'[c] # "up" /\ "up_ok" \notin eff'[c]) =>
                    /\ pc'[c] = "done"
                    /\ res'[c] = UpFailed
                    /\ "ps" \notin eff'[c]
                    /\ req'[c].context \notin DOMAIN locks']_vars
    /\ [](\A c \in Calls :
            /\ res[c] = PruneFailed => pc[c] = "done" /\ eff[c] \cap {"up", "ps"} = {}
            /\ res[c] = UpFailed => pc[c] = "done" /\ "ps" \notin eff[c])

\* C15 witness: one run has ended with the prune error and another with the
\* bring-up error; neither went further, and no lock is held.
C15_Witness ==
    \E c, d \in Calls :
        /\ pc[c] = "done" /\ res[c] = PruneFailed /\ "up" \notin eff[c]
        /\ pc[d] = "done" /\ res[d] = UpFailed /\ "ps" \notin eff[d]
        /\ "prune_ok" \in eff[d]
        /\ DOMAIN locks = {}

\* C16: when the convergence check fails after a bring-up that exited zero,
\* the run issues no further command and writes nothing: in the step that
\* reports the failure only the lock entry of the context is removed, the
\* staged file is left as it is, and nothing is rolled back.
C16_NoRollback ==
    [][\A c \in Calls :
        (pc[c] = "ps" /\ pc'[c] = "done" /\ res'[c].status # 200) =>
            /\ "up_ok" \in eff[c]
            /\ eff'[c] = eff[c] \cup {"release"}
            /\ staged' = staged
            /\ req[c].context \in staged
            /\ DOMAIN locks' = DOMAIN locks \ {req[c].context}
            /\ \A n \in DOMAIN locks' : locks'[n] = locks[n]]_vars

\* C16 witness: a run whose bring-up succeeded has ended with the count
\* mismatch; its staged file is still there and the lock is free.
C16_Witness ==
    /\ pc[1] = "done"
    /\ res[1] = CountMismatch
    /\ {"up_ok", "ps", "release"} \subseteq eff[1]
    /\ "down" \notin eff[1]
    /\ req[1].context \in staged
    /\ req[1].context \notin DOMAIN locks

\* C17 (as claimed): when a run that wrote the staged file completes, the
\* staged file of its context has been discarded.
C17_Claim ==
    [][\A c \in Calls :
        (InFlight(c) /\ pc'[c] = "done" /\ "staged" \in eff'[c]) =>
            req'[c].context \notin staged']_vars

\* C17 (amended): the staged file is never discarded.  It is still at its
\* path when the run that wrote it has completed, whatever the outcome, it
\* stays there until a later run for the same context overwrites it, and it
\* is the file an inspection of the context needs in order to list anything.
C17_StagedCopyStays ==
    /\ [][staged \subseteq staged']_vars
    /\ [][\A c \in Calls :
            (InFlight(c) /\ pc'[c] = "done" /\ "staged" \in eff'[c]) =>
                req'[c].context \in staged']_vars
    /\ [](\A c \in Calls :
            (req[c].op = "inspect" /\ res[c] = InspectData) => req[c].context \in staged)

\* C17 witness: the run of handler 2 has completed and holds no lock, and an
\* inspection of the same context has listed containers from the staged file
\* that the run left behind.
C17_Witness ==
    /\ pc[2] = "done"
    /\ "staged" \in eff[2]
    /\ DOMAIN locks = {}
    /\ req[2].context \in staged
    /\ req[1].op = "inspect"
    /\ req[1].context = req[2].context
    /\ pc[1] = "inspect"
    /\ marks[1] # <<>>

\* The operations that take no lock.
EditorOps ==
    {"inspect", "update_file", "update_json_file", "update_file_on_remote_container"}

\* This step is a step of handler c.
Steps(c) ==
    <<pc[c], req[c], res[c], eff[c], marks[c]>> # <<pc'[c], req'[c], res'[c], eff'[c], marks'[c]>>

\* C18: no step of docker_inspect_containers, update_file_on_remote_container
\* or update_json_file_on_remote_container changes the lock table or depends
\* on it: each of them starts its first command whether or not a run holds
\* the lock of its context and is never answered with ContextBusy, and a run
\* that arrives while only such operations are in progress for its context
\* acquires the lock.
C18_EditorsIgnoreLocks ==
    [][\A c \in Calls :
        /\ (Steps(c) /\ req'[c].op \in EditorOps) =>
                /\ locks' = locks
                /\ res'[c] # ContextBusy
        /\ (Arrives(c) /\ req'[c].context \in DOMAIN contexts) =>
                /\ req'[c].op = "inspect" => pc'[c] = "compose_ps"
                /\ req'[c].op = "update_json_file" => pc'[c] = "cat"
        /\ (Arrives(c) /\ req'[c].op = "update_file_on_remote_container") =>
                pc'[c] = "cp_file"
        /\ (Arrives(c) /\ req'[c].op \in RunOps /\ req'[c].context \in DOMAIN contexts
                /\ \A d \in Calls \ {c} :
                        req[d].context = req'[c].context => req[d].op \in EditorOps) =>
                "acquire" \in eff'[c]]_vars

\* C18 witness: update_file_on_remote_container waits for its second command
\* for context "a" while a run for "a" holds the lock and waits for its
\* first.
C18_Witness ==
    /\ pc[1] = "exec_file"
    /\ req[1].context = "a"
    /\ pc[2] = "prune"
    /\ req[2].context = "a"
    /\ Locked(locks, "a")

\* C19: a `docker inspect` that fails for one listed container writes the
\* failure marker into the entry of that container and into no other; the
\* call goes on to the next listed container, and when it returns every
\* listed container has its entry, data or marker.
C19_InspectFailureIsLocal ==
    /\ [](\A c \in Calls :
            (pc[c] = "done" /\ req[c].op = "inspect" /\ marks[c] # <<>>) =>
                /\ res[c] = InspectData
                /\ \A i \in DOMAIN marks[c] :
                        marks[c][i] \in {"data", "Failed to collect Data!!"})
    /\ [][\A c \in Calls :
            (pc[c] = "inspect" /\ marks'[c] # marks[c]) =>
                /\ DOMAIN marks'[c] = DOMAIN marks[c]
                /\ \E i \in DOMAIN marks[c] :
                        /\ marks[c][i] = "pending"
                        /\ marks'[c][i] # "pending"
                        /\ \A j \in DOMAIN marks[c] \ {i} : marks'[c][j] = marks[c][j]
                        /\ i < Len(marks[c]) => pc'[c] = "inspect"]_vars

\* C19 witness: of two listed containers the inspection of the first failed
\* and that of the second succeeded; both entries are returned.
C19_Witness ==
    /\ pc[1] = "done"
    /\ res[1] = InspectData
    /\ marks[1] = <<"Failed to collect Data!!", "data">>

\* C20: when update_file_on_remote_container or
\* update_json_file_on_remote_container has returned or raised, at whichever
\* step, the temporary file it created, if it created one, has been removed.
C20_ScratchRemoved ==
    \A c \in Calls :
        (pc[c] = "done"
            /\ req[c].op \in {"update_json_file", "update_file_on_remote_container"}) =>
                ("tmpfile" \in eff[c] => "rmtmp" \in eff[c])

\* C20 witness: update_file_on_remote_container has raised because the
\* overwrite inside the container failed, and its temporary file is removed.
C20_Witness ==
    /\ pc[1] = "done"
    /\ req[1].op = "update_file_on_remote_container"
    /\ res[1] = FileMvFailed
    /\ {"tmpfile", "cp", "exec", "rmtmp"} \subseteq eff[1]

\* C21 (as claimed): update_file_on_remote_container raises the execution
\* error when the copy into the container, the overwrite of the target path
\* or the removal of the temporary path fails, and returns the success
\* acknowledgement only when the target path has been overwritten.
C21_Claim ==
    \A c \in Calls :
        (pc[c] = "done" /\ req[c].op = "update_file_on_remote_container") =>
            /\ "exec" \notin eff[c] => res[c] = CpFailed
            /\ ("exec" \in eff[c] /\ ~{"overwritten", "rm_remote"} \subseteq eff[c]) =>
                    res[c] = FileMvFailed
            /\ res[c] = FileUpdated => "overwritten" \in eff[c]

\* C22 (as claimed): when the text read from the container is no JSON
\* document, update_json_file_on_remote_container takes it for {} and goes
\* on: it raises nothing for the text and writes the merged content to its
\* temporary file.
C22_Claim ==
    \A c \in Calls :
        (req[c].op = "update_json_file" /\ "undecodable" \in eff[c]) =>
            /\ res[c] # Unhandled("JSONDecodeError")
            /\ "tmpfile" \in eff[c]

\* C24: the registry is what the one query at start-up gave and never
\* changes afterwards; when that query failed the registry is empty, and
\* every request of every endpoint, for any context name, is answered with
\* the unknown-context error and does nothing.
C24_EmptyRegistryRejectsAll ==
    /\ [][contexts' = contexts]_vars
    /\ [](contexts \in {docker_context_ls(0), docker_context_ls(1)})
    /\ [](contexts = docker_context_ls(1) =>
            \A c \in Calls :
                req[c].op # "none" =>
                    /\ pc[c] = "done"
                    /\ res[c] = InvalidContext
                    /\ eff[c] = {}
                    /\ locks = EmptyLocks
                    /\ staged = {})

\* C24 witness: the query failed; an inspection of "b" and a run with a valid
\* document for "a" have both been turned away.
C24_Witness ==
    /\ contexts = EmptyDict
    /\ req[1] = Request_("inspect", "b", NoYaml, 0)
    /\ res[1] = InvalidContext
    /\ req[2] = Request_("run", "a", Yaml("services", 1), 0)
    /\ res[2] = InvalidContext

\* C27 (as claimed): when the bring-up exited zero and the convergence query
\* reported as many running services as the document declares, zero of zero
\* included, the run returns the run result.
C27_Claim ==
    \A c \in Calls :
        (pc[c] = "done" /\ req[c].yaml.kind \in {"nokey", "services"}
            /\ observed[c] >= 0 /\ observed[c] = DeclaredCount(req[c].yaml)) =>
                res[c] = RunResult

\* C26: under fair scheduling, with every external command and every put
\* returning, a run that has acquired the lock completes in the end, with a
\* result or an error, and the lock of its context is free when it does; and
\* a file transfer that is putting or sleeping ends in the end.
C26_RunsComplete ==
    /\ \A c \in Calls :
            InFlight(c) ~>
                (pc[c] = "done" /\ "release" \in eff[c]
                    /\ ~Locked(locks, req[c].context))
    /\ \A c \in Calls : \A f \in 1..MaxFiles :
            (pc[c] = "copy" /\ f \in DOMAIN files[c]
                /\ files[c][f].phase \in {"put", "sleep"}) ~>
                (f \in DOMAIN files[c] /\ files[c][f].phase \in {"done", "raised"})

\* C26 witness: a run whose transfer failed on all three attempts has still
\* completed, and the lock of its context is free.
C26_Witness ==
    /\ pc[1] = "done"
    /\ req[1].nmounts = 1
    /\ files[1] = <<FileTask(0, "done", FALSE)>>
    /\ "release" \in eff[1]
    /\ ~Locked(locks, req[1].context)

\* ---------------------------------------------------------------- C23
\* The call of copy_mount_files with a single mount, its token and its
\* source path.
OneMount == call.fn = "copy_mount_files" /\ Len(call.mounts) = 1
Token == call.mounts[1].token
SourcePath == call.mounts[1].source

\* The start positions of the occurrences of t in s met by a scan from
\* position i that steps over each occurrence it meets.
RECURSIVE Matches(_, _, _)
Matches(s, t, i) ==
    IF i + Len(t) - 1 > Len(s) THEN <<>>
    ELSE IF SubSeq(s, i, i + Len(t) - 1) = t
    THEN <<i>> \o Matches(s, t, i + Len(t))
    ELSE Matches(s, t, i + 1)

SharesCharacter(s, t) == \E i \in DOMAIN s, j \in DOMAIN t : s[i] = t[j]

C30_Claim ==
    (/\ call.fn = "copy_mount_files"
     /\ call.stage = "returned"
     /\ \A i, j \in DOMAIN call.mounts :
            i # j => call.mounts[i].source # call.mounts[j].source) =>
        \A i \in DOMAIN call.files_to_copy :
            /\ call.files_to_copy[i].remote = call.mounts[i].source
            /\ call.sent[i] = call.mounts[i].file

\* ---------------------------------------------------------------- C28
\* The commands a call of src/factory starts after its first one.
LaterCommands == {"f_ps", "f_inspect"}

\* C28: in src/factory the first command of a call (the bring-up, or
\* `docker compose ps`) is started right after the call wrote the endpoint
\* of its own context to DOCKER_HOST, whereas every later command (the
\* convergence query, each `docker inspect`) is started under whatever
\* DOCKER_HOST holds at that moment, which the call does not write again;
\* with the witness below, a command of one context can so run under the
\* endpoint of another context.
C28_LaterCommandsUseProcessHost ==
    [][\A c \in Calls :
        /\ (pc'[c] \in {"f_up", "f_compose_ps"} /\ pc[c] # pc'[c]) =>
              /\ environ' = contexts[req'[c].context]
              /\ host'[c].used = environ'
        /\ (pc'[c] \in LaterCommands /\ (pc[c] # pc'[c] \/ marks[c] # marks'[c])) =>
              /\ environ' = environ
              /\ host'[c].used = environ]_vars

\* The convergence query of a run on context "a" was started while
\* DOCKER_HOST held the endpoint of context "b".
C28_Witness ==
    \E c \in Calls :
        /\ req[c].context = "a"
        /\ pc[c] = "f_ps"
        /\ host[c].used = ConfiguredContexts["b"]

\* ---------------------------------------------------------------- C29
\* C29 as stated: in src/factory, when no call is in flight, DOCKER_HOST has
\* the value, or the absence, it had when the process started.
C29_Claim ==
    (\A c \in Calls : pc[c] \in {"idle", "done"}) => environ = call.DOCKER_HOST

\* ---------------------------------------------------------------- C33
\* This step is the one in which handler c writes the staged compose file.
WritesStaged(c) ==
    /\ "staged" \in eff'[c]
    /\ Arrives(c) \/ "staged" \notin eff[c]

\* The answers of a run that stopped at validation, at the resolution of its
\* context or at mount staging, or was turned away before them.
StoppedEarly ==
    {InvalidContext, ContextBusy, InvalidYaml, CopyFailed,
     Unhandled("AttributeError"), Unhandled("KeyError"), Unhandled("OSError"),
     Unhandled("ExceptionGroup")}

BothUpdated ==
    /\ call.fn = "update_json_file_on_remote_container"
    /\ \A c \in {1, 2} :
        pc[c] = "done" /\ res[c] = JsonUpdated /\ "overwritten" \in eff[c]
    /\ DOMAIN call.json_content[1] \cap DOMAIN call.json_content[2] = {}

\* C32 as stated: when two update_json_file_on_remote_container calls on one
\* container and path with json_content on disjoint keys have both completed
\* successfully, the file holds the keys of both calls and every key of the
\* original document.
C32_Claim ==
    BothUpdated =>
        /\ call.file.kind = "json"
        /\ (DOMAIN call.json_content[1] \cup DOMAIN call.json_content[2]
                \cup DOMAIN Loads(call.original)) \subseteq DOMAIN call.file.doc

\* ---------------------------------------------------------------- C31
\* C31 as stated: when two runs for different contexts stage their mounts at
\* the same time, every file a run has transferred to its host has the
\* payload of that run's own mount, whatever the source paths are.
C31_Claim ==
    call.fn = "docker_compose_run with mounts" =>
        \A c \in {1, 2} :
            call.of[c].context # call.of[3 - c].context =>
                \A i \in DOMAIN call.of[c].sent :
                    call.of[c].sent[i] = call.of[c].mounts[i].file

====
